---- MODULE Spec2Model ----
(***************************************************************************)
(* A model of nanoCAT/bde/dissociate_xyn_v2.py: the MolDissociater engine  *)
(* (core index coercion, bulk filter, topology classifier, the two pairing *)
(* strategies, the combination expander, the dissociation generator) and   *)
(* the start_dissociate workflow that chains them.                         *)
(*                                                                         *)
(* Conventions.  NumPy arrays are sequences; a 0-based array position k is *)
(* the sequence position k + 1.  Structures are collinear, with integer    *)
(* coordinates, so the Euclidean distance of two atoms is the absolute     *)
(* difference of their coordinates; norms are compared by their squares    *)
(* (the square root is monotone).  An exception raised by a method is the  *)
(* value of err after the call; "None" means the call returned.            *)
(***************************************************************************)
EXTENDS Integers, Sequences, FiniteSets, TLC

VARIABLES
    mol,            \* the structure: coordinates, residue numbers, atom properties
    self,           \* the MolDissociater instance: its attributes
    cor_lig_pairs,  \* the array last returned by a pairing method
    combinations,   \* the generator last returned by get_combinations
    yielded,        \* the records pulled from that generator so far
    call,           \* the last method call and its arguments
    err,            \* the exception the last call raised, or "None"
    run,            \* the start_dissociate call in progress: arguments and position
    dissociate,     \* the generator last returned by MolDissociater.__call__
    molecules       \* the structures pulled from that generator so far

vars == <<mol, self, cor_lig_pairs, combinations, yielded, call, err,
          run, dissociate, molecules>>

\* The variables of the workflow and of the dissociation generator.
gen_vars == <<run, dissociate, molecules>>

\* Bounds of the model.
NAtoms == 5
MaxIdxLen == 2
MaxLigandCount == 3
MaxPairs == 2
MaxRadius == 3
MaxMatches == 2
MaxMatchWidth == 2
MaxRecords == 2
MaxKey == 2

Atoms == 1..NAtoms

(***************************************************************************)
(* Generic helpers.                                                        *)
(***************************************************************************)
Abs(x) == IF x < 0 THEN -x ELSE x

Min(a, b) == IF a < b THEN a ELSE b

Take(s, n) == SubSeq(s, 1, Min(n, Len(s)))

SeqsUpTo(S, n) == UNION { [1..k -> S] : k \in 0..n }

RECURSIVE Insert(_, _)
Insert(x, s) ==
    IF s = <<>> THEN <<x>>
    ELSE IF x <= Head(s) THEN <<x>> \o s
    ELSE <<Head(s)>> \o Insert(x, Tail(s))

\* ndarray.sort() of a 1-D integer array.
RECURSIVE sort(_)
sort(s) == IF s = <<>> THEN <<>> ELSE Insert(Head(s), sort(Tail(s)))

\* All sequences that take one element from each set of a sequence of sets.
RECURSIVE SeqProduct(_)
SeqProduct(sets) ==
    IF sets = <<>> THEN {<<>>}
    ELSE { <<h>> \o t : h \in Head(sets), t \in SeqProduct(Tail(sets)) }

RECURSIVE Flatten(_)
Flatten(ss) == IF ss = <<>> THEN <<>> ELSE Head(ss) \o Flatten(Tail(ss))

RECURSIVE SumSeq(_)
SumSeq(s) == IF s = <<>> THEN 0 ELSE Head(s) + SumSeq(Tail(s))

(***************************************************************************)
(* itertools.combinations(s, n): the size-n sub-sequences of s, in         *)
(* lexicographic order of their positions.                                 *)
(***************************************************************************)
RECURSIVE Combinations(_, _)
Combinations(s, n) ==
    IF n = 0 THEN << <<>> >>
    ELSE IF Len(s) < n THEN <<>>
    ELSE LET with == Combinations(Tail(s), n - 1)
         IN  [k \in 1..Len(with) |-> <<Head(s)>> \o with[k]] \o Combinations(Tail(s), n)

\* range(n) as a sequence.
Range(n) == [k \in 1..n |-> k - 1]

(***************************************************************************)
(* as_array: an iterator goes through numpy.fromiter (always 1-D), any     *)
(* other value through numpy.array (a single integer gives a 0-d array).   *)
(* When the array has fewer than ndmin dimensions the function reads       *)
(* ret.ndmin, which no ndarray has: AttributeError.                        *)
(***************************************************************************)
as_array(iterable, ndmin) ==
    LET ndim == IF iterable.kind = "int" THEN 0 ELSE 1
    IN  IF ndim < ndmin
        THEN [err |-> "AttributeError", ndim |-> ndim, data |-> <<>>]
        ELSE [err |-> "None", ndim |-> ndim, data |-> iterable.items]

\* The core_idx setter: as_array(value, ndmin=1), minus one, sorted in place.
core_idx_setter(value) ==
    LET ret == as_array(value, 1)
    IN  IF ret.err /= "None" THEN ret
        ELSE [ret EXCEPT !.data = sort([k \in 1..Len(ret.data) |-> ret.data[k] - 1])]

\* The topology setter: None becomes the empty mapping.
topology_setter(value) == IF value.none THEN <<>> ELSE value.map

(***************************************************************************)
(* partition_mol with the default key: walk the atoms in order, open a     *)
(* list at a residue number's first atom and append the later ones.        *)
(***************************************************************************)
\* A variant that puts a later atom in front of its group.
RECURSIVE partition_loop_prepend(_, _, _)
partition_loop_prepend(resid, i, ret) ==
    IF i > Len(resid) THEN ret
    ELSE LET key == resid[i]
         IN  IF key \in DOMAIN ret
             THEN partition_loop_prepend(resid, i + 1, [ret EXCEPT ![key] = <<i>> \o @])
             ELSE partition_loop_prepend(resid, i + 1, ret @@ (key :> <<i>>))

RECURSIVE partition_loop(_, _, _)
partition_loop(resid, i, ret) ==
    IF i > Len(resid) THEN ret
    ELSE LET key == resid[i]
         IN  IF key \in DOMAIN ret
             THEN partition_loop(resid, i + 1, [ret EXCEPT ![key] = Append(@, i)])
             ELSE partition_loop(resid, i + 1, ret @@ (key :> <<i>>))

partition_mol(m) == partition_loop(m.ResidueNumber, 1, <<>>)

\* partition_mol(key): `key` is None or the values of a callable on the atoms.
partition_mol_key(m, key) ==
    partition_loop(IF key.none THEN m.ResidueNumber ELSE key.values, 1, <<>>)

(***************************************************************************)
(* Structures.  A structure is a line of NAtoms atoms in index order: a    *)
(* one-dimensional lattice with a two-atom basis, whose spacings (each 1   *)
(* or 2 length units) alternate.  Residue numbers start at 1 and stay or   *)
(* grow by one from an atom to the next (as in a PDB file).                *)
(***************************************************************************)
Line(gaps) == [a \in 1..(Len(gaps) + 1) |-> SumSeq(Take(gaps, a - 1))]

\* The spacings of the lattice with basis spacings a and b.
Lattice(a, b) == [k \in 1..(NAtoms - 1) |-> IF k % 2 = 1 THEN a ELSE b]

Residues(steps) == [a \in 1..(Len(steps) + 1) |-> 1 + SumSeq(Take(steps, a - 1))]

Molecule(gaps, steps) ==
    [xyz |-> Line(gaps),
     ResidueNumber |-> Residues(steps),
     topology |-> [a \in 1..(Len(gaps) + 1) |-> "None"],
     \* mol.properties.indices: a list object, or none (id 0)
     indices |-> [id |-> 0, items |-> <<>>]]

AllGaps == { Lattice(a, b) : a, b \in {1, 2} }

AllSteps == [1..(NAtoms - 1) -> {0, 1}]

\* One atom per residue.
UnitSteps == [a \in 1..(NAtoms - 1) |-> 1]

\* The values a caller hands to an index parameter: one integer, a list, or a
\* one-shot iterator, of 1-based atom indices.
IndexValues(maxlen) ==
    { [kind |-> "int", items |-> <<a>>] : a \in Atoms }
    \cup { [kind |-> k, items |-> s] :
             k \in {"list", "iterator"}, s \in SeqsUpTo(Atoms, maxlen) }

\* Strictly ascending index lists of any length (what enumerate() produces).
AscendingLists ==
    { [kind |-> "iterator", items |-> s] : s \in
        { s \in SeqsUpTo(Atoms, NAtoms) :
            \A a \in 1..(Len(s) - 1) : s[a] < s[a + 1] } }

Radii == 1..MaxRadius

\* The topology argument: None, or a mapping of neighbour counts to labels.
TopologyArgs ==
    { [none |-> TRUE, map |-> <<>>],
      [none |-> FALSE, map |-> (0 :> "isolated")],
      [none |-> FALSE, map |-> (1 :> "vertex" @@ 2 :> "edge")] }

(***************************************************************************)
(* MolDissociater.__init__: the state after a construction that returned.  *)
(* max_dist is the caller's value or, for None, what the distance          *)
(* estimator returns: any radius.                                          *)
(***************************************************************************)
\* The attributes __init__ assigns.
MolDissociater(m, core, ligand_count, max_dist, topology) ==
    [core_idx |-> core_idx_setter(core).data,
     ligand_count |-> ligand_count,
     max_dist |-> max_dist,
     topology |-> topology_setter(topology),
     coords |-> m.xyz,
     partition_dict |-> partition_mol(m)]

init(m, core, ligand_count, max_dist, topology) ==
    /\ core_idx_setter(core).err = "None"
    /\ mol = m
    /\ self = MolDissociater(m, core, ligand_count, max_dist, topology)
    /\ cor_lig_pairs = [dtype |-> "None", rows |-> <<>>]
    /\ combinations = [state |-> "None"]
    /\ yielded = <<>>
    /\ call = [op |-> "__init__"]
    /\ err = "None"
    /\ run = [pc |-> "None"]
    /\ dissociate = [state |-> "None"]
    /\ molecules = <<>>

(***************************************************************************)
(* Array helpers of the geometric methods.                                 *)
(***************************************************************************)
\* xyz[i] for a 0-based index array i.
rows_of(xyz, i) == [k \in 1..Len(i) |-> xyz[i[k] + 1]]

\* scipy.spatial.distance.cdist of two lists of points.
cdist(XA, XB) == [k \in 1..Len(XA) |-> [l \in 1..Len(XB) |-> Abs(XA[k] - XB[l])]]

\* numpy.fill_diagonal: the entries [k, k], also of a matrix that is not square.
fill_diagonal(dist, val) ==
    [k \in 1..Len(dist) |->
        [l \in 1..Len(dist[k]) |-> IF k = l THEN val ELSE dist[k][l]]]

(***************************************************************************)
(* The core_idx setter called on a constructed engine.                     *)
(***************************************************************************)
SetCoreIdx(value) ==
    LET ret == core_idx_setter(value)
    IN  /\ call' = [op |-> "core_idx", value |-> value]
        /\ err' = ret.err
        /\ self' = IF ret.err = "None" THEN [self EXCEPT !.core_idx = ret.data] ELSE self
        /\ UNCHANGED <<mol, cor_lig_pairs, combinations, yielded>>

(***************************************************************************)
(* remove_bulk: its first statement after reading the attributes calls     *)
(* np.filldiagonal, a name NumPy does not have (the function is            *)
(* fill_diagonal): every call raises AttributeError before core_idx is     *)
(* touched.  max_vec_len is in half length units (1 is the default 0.5).   *)
(***************************************************************************)
remove_bulk(max_vec_len) ==
    /\ call' = [op |-> "remove_bulk", max_vec_len |-> max_vec_len]
    /\ err' = "AttributeError"
    /\ UNCHANGED <<mol, self, cor_lig_pairs, combinations, yielded>>

(***************************************************************************)
(* assign_topology.                                                        *)
(***************************************************************************)
\* bincount of the rows of where(dist <= max_dist), minus one.
neighbour_count(dist, max_dist) ==
    [k \in 1..Len(dist) |->
        Cardinality({ l \in 1..Len(dist[k]) : dist[k][l] <= max_dist }) - 1]

\* _get_topology: topology.get(i, f'{i}_neighbours') per count.
get_topology(topology, count) ==
    [k \in 1..Len(count) |->
        IF count[k] \in DOMAIN topology THEN topology[count[k]]
        ELSE ToString(count[k]) \o "_neighbours"]

\* for j, top in zip(core_idx, topology): mol[1 + j].properties.topology = top
RECURSIVE write_topology(_, _, _)
write_topology(labels, i, top) ==
    IF i = <<>> THEN labels
    ELSE write_topology([labels EXCEPT ![1 + Head(i)] = Head(top)], Tail(i), Tail(top))

assign_topology ==
    LET i == self.core_idx
        xyz == self.coords
        dist == fill_diagonal(cdist(rows_of(xyz, i), rows_of(xyz, i)), self.max_dist)
        top == get_topology(self.topology, neighbour_count(dist, self.max_dist))
    IN  /\ mol' = [mol EXCEPT !.topology = write_topology(@, i, top)]
        /\ call' = [op |-> "assign_topology"]
        /\ err' = "None"
        /\ UNCHANGED <<self, cor_lig_pairs, combinations, yielded>>

(***************************************************************************)
(* numpy.argsort of one row (the default kind, quicksort, is not stable):  *)
(* any ordering of the 0-based positions that sorts the row; which one, of *)
(* equal values, is the build's choice.                                    *)
(***************************************************************************)
RECURSIVE sorted_orders(_, _)
sorted_orders(row, left) ==
    IF left = {} THEN {<<>>}
    ELSE LET least == { p \in left : \A q \in left : row[p + 1] <= row[q + 1] }
         IN  UNION { { <<p>> \o rest : rest \in sorted_orders(row, left \ {p}) } :
                     p \in least }

argsort(row) == sorted_orders(row, 0..(Len(row) - 1))

Raise(e) == [err |-> e, dtype |-> "None", rows |-> <<>>]

Return(dtype, rows) == [err |-> "None", dtype |-> dtype, rows |-> rows]

(***************************************************************************)
(* get_pairs_closest.  The ligand columns of the result are argsort        *)
(* output: 0-based positions in lig_idx, not atom indices.                 *)
(***************************************************************************)
\* A variant that keeps the first two ligands of the list, unsorted.
closest_single_unsorted(i, dist) ==
    SeqProduct([k \in 1..Len(i) |-> { <<i[k]>> \o Take(Range(Len(dist[k])), 2) }])

\* n_pairs == 1: the first two positions of the sorted row, behind the core index.
closest_single(i, dist) ==
    SeqProduct([k \in 1..Len(i) |->
        { <<i[k]>> \o Take(p, 2) : p \in argsort(dist[k]) }])

\* The pool of one row: its 1 + n_pairs nearest positions.
idx_small(row, n_pairs) == { Take(p, 1 + n_pairs) : p \in argsort(row) }

\* combinations(range(1 + n_pairs), n), one row per combination.
combine(n_pairs, n) == Combinations(Range(1 + n_pairs), n)

\* The squared norm of the pool distances a combination selects.
norm(row, pool, c) == SumSeq([b \in 1..Len(c) |-> row[pool[c[b] + 1] + 1] * row[pool[c[b] + 1] + 1]])

\* n_pairs > 1, one core atom: the n_pairs combinations of smallest norm.
closest_block(core, row, n_pairs, n) ==
    LET comb == combine(n_pairs, n)
    IN  UNION { { [a \in 1..Len(acc) |->
                     <<core>> \o [b \in 1..n |-> pool[comb[acc[a] + 1][b] + 1]]] :
                  acc \in { Take(q, n_pairs) :
                            q \in argsort([c \in 1..Len(comb) |-> norm(row, pool, comb[c])]) } } :
                pool \in idx_small(row, n_pairs) }

closest_multi(i, dist, n_pairs, n, nlig) ==
    LET comb == combine(n_pairs, n)
        width == Min(nlig, 1 + n_pairs)
        outside == \E c \in 1..Len(comb) : \E b \in 1..n : comb[c][b] >= width
    IN  IF outside
        \* dist_smallest[:, combine]; with no core row older NumPy lets the index
        \* pass and the reshape of the empty result to (-1, 0) fails instead
        THEN IF Len(i) = 0 THEN {Raise("IndexError"), Raise("ValueError")}
             ELSE {Raise("IndexError")}
        \* lig_idx.shape = -1, 0 of the empty list's array
        ELSE IF Len(i) = 0 THEN {Raise("ValueError")}
        \* hstack of n_pairs core rows and fewer ligand rows per core atom
        ELSE IF Len(comb) < n_pairs THEN {Raise("ValueError")}
        ELSE { Return("int", Flatten(blocks)) :
                 blocks \in SeqProduct([k \in 1..Len(i) |->
                                closest_block(i[k], dist[k], n_pairs, n)]) }

closest_result(s, lig_idx, n_pairs) ==
    IF n_pairs <= 0 THEN {Raise("ValueError")}
    ELSE LET ret == as_array(lig_idx, 0)
             i == s.core_idx
             j == [l \in 1..Len(ret.data) |-> ret.data[l] - 1]
             dist == cdist(rows_of(s.coords, i), rows_of(s.coords, j))
         IN  \* cdist refuses xyz[j] of a 0-d j: it is one point, not a list
             IF ret.ndim = 0 THEN {Raise("ValueError")}
             ELSE IF n_pairs = 1
                  THEN { Return("int", rows) : rows \in closest_single(i, dist) }
                  ELSE closest_multi(i, dist, n_pairs, s.ligand_count, Len(j))

get_pairs_closest(lig_idx, n_pairs) ==
    \E out \in closest_result(self, lig_idx, n_pairs) :
        /\ call' = [op |-> "get_pairs_closest", lig_idx |-> lig_idx, n_pairs |-> n_pairs]
        /\ err' = out.err
        /\ cor_lig_pairs' = IF out.err = "None"
                            THEN [dtype |-> out.dtype, rows |-> out.rows]
                            ELSE cor_lig_pairs
        /\ UNCHANGED <<mol, self, combinations, yielded>>

(***************************************************************************)
(* get_pairs_distance.  fill_diagonal acts on the rectangular core x       *)
(* ligand matrix: it overwrites the distance of the k-th core atom to the  *)
(* k-th ligand.  groupby keeps the (row, column) tuples of where() as the  *)
(* values, so a record is the row number followed by n such tuples; here   *)
(* every entry of such a record is a tuple, the row number a 1-tuple.      *)
(***************************************************************************)
\* The (row, column) tuples of where(dist < max_dist) of row k, 0-based.
where_row(dist, max_dist, k) ==
    LET cols == SelectSeq([l \in 1..Len(dist[k]) |-> l], LAMBDA l : dist[k][l] < max_dist)
    IN  [c \in 1..Len(cols) |-> <<k - 1, cols[c] - 1>>]

\* ((k,) + n_tup for n_tup in combinations(v, n)) for every key with len(v) >= n.
distance_records(dist, max_dist, n) ==
    Flatten([k \in 1..Len(dist) |->
        LET v == where_row(dist, max_dist, k)
            tups == Combinations(v, n)
        IN  IF Len(v) >= 1 /\ Len(v) >= n
            THEN [t \in 1..Len(tups) |-> << <<k - 1>> >> \o tups[t]]
            ELSE <<>>])

distance_result(s, lig_idx, max_dist) ==
    LET ret == as_array(lig_idx, 0)
        i == s.core_idx
        j == [l \in 1..Len(ret.data) |-> ret.data[l] - 1]
        dist == fill_diagonal(cdist(rows_of(s.coords, i), rows_of(s.coords, j)), max_dist)
        records == distance_records(dist, max_dist, s.ligand_count)
    IN  IF ret.ndim = 0 THEN {Raise("ValueError")}
        \* numpy.array of no record: an empty 1-D float array
        ELSE IF records = <<>> THEN {Return("float", <<>>)}
        \* numpy.array of ragged records: an object array, or in NumPy >= 1.24
        \* ValueError (inhomogeneous shape)
        ELSE {Return("object", records), Raise("ValueError")}

get_pairs_distance(lig_idx, max_dist) ==
    \E out \in distance_result(self, lig_idx, max_dist) :
        /\ call' = [op |-> "get_pairs_distance", lig_idx |-> lig_idx, max_dist |-> max_dist]
        /\ err' = out.err
        /\ cor_lig_pairs' = IF out.err = "None"
                            THEN [dtype |-> out.dtype, rows |-> out.rows]
                            ELSE cor_lig_pairs
        /\ UNCHANGED <<mol, self, combinations, yielded>>

(***************************************************************************)
(* Arithmetic on the pair array: array + 1 and array[:, 1:].               *)
(***************************************************************************)
\* Adding an integer to every entry from column `from` on (0-based).
add_columns(pairs, from, x) ==
    IF pairs.dtype = "object" THEN Raise("TypeError")       \* tuple + int
    ELSE IF pairs.dtype = "float" /\ from > 0 THEN Raise("IndexError")  \* 1-D array
    ELSE Return(pairs.dtype,
                [r \in 1..Len(pairs.rows) |->
                    [c \in 1..Len(pairs.rows[r]) |->
                        IF c > from THEN pairs.rows[r][c] + x ELSE pairs.rows[r][c]]])

\* start_dissociate: cor_lig_pairs[:, 1:] += 1 (the first residue is the core).
shift_ligands ==
    /\ cor_lig_pairs.dtype /= "None"
    /\ LET out == add_columns(cor_lig_pairs, 1, 1)
       IN  /\ call' = [op |-> "shift_ligands"]
           /\ err' = out.err
           /\ cor_lig_pairs' = IF out.err = "None"
                               THEN [dtype |-> out.dtype, rows |-> out.rows]
                               ELSE cor_lig_pairs
    /\ UNCHANGED <<mol, self, combinations, yielded>>

(***************************************************************************)
(* get_combinations with core_smiles=None.  The call computes              *)
(* cor_lig_pairs + 1 and its ligand columns at once and returns a          *)
(* generator over zip(core_iterator, ligand_list); core_iterator runs over *)
(* 1 + core_idx, one integer per core atom.                                *)
(***************************************************************************)
\* _core_neighbours(None): iter((1 + core).tolist())
core_neighbours(s) == [k \in 1..Len(s.core_idx) |-> 1 + s.core_idx[k]]

\* chain.from_iterable(x): a lazy iterator over the items of the items of x.
chain_from_iterable(x) == [type |-> "chain", iterables |-> x]

\* Exhausting such an iterator over a list of integers: the first integer is
\* not iterable.
chain_items(c) ==
    IF c.iterables = <<>> THEN [err |-> "None", items |-> <<>>]
    ELSE [err |-> "TypeError", items |-> <<>>]

get_combinations ==
    /\ cor_lig_pairs.dtype /= "None"
    /\ LET pairs1 == add_columns(cor_lig_pairs, 0, 1)
           \* cor_lig_pairs1[:, 1:] of a 1-D array
           failed == IF pairs1.err /= "None" THEN pairs1.err
                     ELSE IF pairs1.dtype = "float" THEN "IndexError" ELSE "None"
       IN  /\ call' = [op |-> "get_combinations", cor_lig_pairs |-> cor_lig_pairs]
           /\ err' = failed
           /\ IF failed = "None"
              THEN /\ combinations' =
                         [state |-> "suspended",
                          cor_lig_pairs |-> cor_lig_pairs.rows,
                          core_iterator |-> core_neighbours(self),
                          ligand_list |-> [r \in 1..Len(pairs1.rows) |-> Tail(pairs1.rows[r])]]
                   /\ yielded' = <<>>
              ELSE UNCHANGED <<combinations, yielded>>
    /\ UNCHANGED <<mol, self, cor_lig_pairs>>

\* _get_value(core, ligands), or KeyError of partition_dict[lig].
get_value(partition_dict, core, ligands) ==
    IF \E b \in 1..Len(ligands) : ligands[b] \notin DOMAIN partition_dict
    THEN [err |-> "KeyError"]
    ELSE [err |-> "None",
          core |-> core,
          ligands |-> [b \in 1..Len(ligands) |->
                          chain_from_iterable(partition_dict[ligands[b]])]]

\* next() of the generator: zip stops at the shorter of its two inputs.
next_combination ==
    /\ combinations.state = "suspended"
    /\ call' = [op |-> "next"]
    /\ IF combinations.core_iterator = <<>> \/ combinations.ligand_list = <<>>
       THEN /\ err' = "StopIteration"
            /\ combinations' = [combinations EXCEPT !.state = "closed"]
            /\ UNCHANGED yielded
       ELSE LET value == get_value(self.partition_dict,
                                   Head(combinations.core_iterator),
                                   Head(combinations.ligand_list))
            IN  /\ err' = value.err
                /\ IF value.err = "None"
                   THEN /\ combinations' =
                              [combinations EXCEPT
                                  !.core_iterator = Tail(@), !.ligand_list = Tail(@)]
                        /\ yielded' = Append(yielded,
                              [core |-> value.core, ligands |-> value.ligands])
                   ELSE /\ combinations' = [combinations EXCEPT !.state = "closed"]
                        /\ UNCHANGED yielded
    /\ UNCHANGED <<mol, self, cor_lig_pairs>>

(***************************************************************************)
(* _core_neighbours with a SMILES string.  `matches` is what RDKit's       *)
(* GetSubstructMatches returns for the string: rows of 0-based atom        *)
(* indices, all of the width of the substructure.  numpy.intersect1d       *)
(* without return_indices returns one array, the sorted common values;     *)
(* the method unpacks it into three names, which succeeds only for an      *)
(* array of exactly three values, and the names are then three integers.   *)
(***************************************************************************)
\* The ascending sequence of a set of integers.
RECURSIVE SetSorted(_)
SetSorted(S) ==
    IF S = {} THEN <<>>
    ELSE LET least == CHOOSE x \in S : \A y \in S : x <= y
         IN  <<least>> \o SetSorted(S \ {least})

Values(seq) == { seq[k] : k \in 1..Len(seq) }

\* np.intersect1d(core, matches)
intersect1d(core, matches) ==
    SetSorted(Values(core) \cap UNION { Values(matches[r]) : r \in 1..Len(matches) })

\* _ValueError: the payload is np.setdiff1d(core, intersect), sorted.
ValueError_absent(core, intersect) == SetSorted(Values(core) \ {intersect})

core_neighbours_smiles(s, matches) ==
    LET core == s.core_idx
        common == intersect1d(core, matches)
        none == [err |-> "None", what |-> "None", absent |-> <<>>, items |-> <<>>]
    IN  IF Len(common) /= 3
        THEN [none EXCEPT !.err = "ValueError", !.what = "unpack"]
        ELSE LET intersect == common[1]
                 idx == common[3] \div Len(matches[1])
             IN  IF \A k \in 1..Len(core) : intersect /= core[k]
                 THEN [none EXCEPT !.err = "ValueError", !.what = "absent atoms",
                                   !.absent = ValueError_absent(core, intersect)]
                 ELSE IF idx >= Len(matches)
                 THEN [none EXCEPT !.err = "IndexError"]
                 \* one row of matches, 1-based: an iterator of integers
                 ELSE [none EXCEPT !.items = [c \in 1..Len(matches[idx + 1]) |->
                                                 1 + matches[idx + 1][c]]]

\* self._core_neighbours(smiles), as get_combinations calls it.
core_neighbours_call(matches) ==
    LET out == core_neighbours_smiles(self, matches)
    IN  /\ call' = [op |-> "_core_neighbours", matches |-> matches,
                    what |-> out.what, absent |-> out.absent, items |-> out.items]
        /\ err' = out.err
        /\ UNCHANGED <<mol, self, cor_lig_pairs, combinations, yielded>>

(***************************************************************************)
(* _get_new_indices.  A list object is its identity and its items; id 0 is *)
(* no list (the attribute is unset), id 1 the list the source structure    *)
(* came with.  With an unset or empty list the method binds one new empty  *)
(* list to mol.properties.indices and returns that same object.  Otherwise *)
(* it copies the list, deletes its last n entries and calls next() on      *)
(* partition_dict.values(), which is a view and no iterator: TypeError,    *)
(* before the lines that would drop the core entry (l.544-550) are reached.*)
(***************************************************************************)
get_new_indices(s, m) ==
    LET n == s.ligand_count
        old == m.indices
        new == [id |-> (IF old.id = 0 THEN 1 ELSE old.id) + 1, items |-> <<>>]
    IN  IF old.items = <<>>
        THEN [err |-> "None", ret |-> new, indices |-> new]
        ELSE IF Len(old.items) < n                 \* del ret[-1] of an empty list
        THEN [err |-> "IndexError", ret |-> new, indices |-> old]
        ELSE [err |-> "TypeError", ret |-> new, indices |-> old]

(***************************************************************************)
(* MolDissociater.__call__, a generator function: the call returns a       *)
(* generator and runs nothing; the first next() runs _get_new_indices and  *)
(* enters the loop.  A record of `combinations` is a core part and a       *)
(* ligand part; the core part is one integer or a list of integers, an     *)
(* entry of the ligand part is an integer, a list or a chain object.       *)
(* Molecule.__getitem__ accepts an integer (or a pair, for a bond) and     *)
(* raises MoleculeError for anything else; Molecule.delete_atom raises     *)
(* MoleculeError for an atom that is no longer in the molecule.            *)
(***************************************************************************)
\* One pass of the loop body for `record`, with `labels` the topology
\* properties of the atoms of the copy.
loop_body(m, indices, record) ==
    LET core_idx == record.core
        lig_idx == record.ligands
        failed(e) == [err |-> e, mol_new |-> <<>>]
        delete_at == core_idx.items
                        \o [b \in 1..Len(lig_idx) |-> lig_idx[b].items[1]]
    IN  IF core_idx.kind = "int" THEN failed("TypeError")            \* core_idx[0]
        ELSE IF core_idx.items = <<>> THEN failed("IndexError")     \* core_idx[0]
        ELSE IF \E b \in 1..Len(lig_idx) : lig_idx[b].kind /= "int"
        THEN failed("MoleculeError")                                \* mol_new[i]
        ELSE IF lig_idx /= <<>> THEN failed("TypeError")            \* i[0]
        ELSE IF \E a, b \in 1..Len(delete_at) : a /= b /\ delete_at[a] = delete_at[b]
        THEN failed("MoleculeError")                                \* delete_atom
        ELSE [err |-> "None",
              mol_new |-> [atoms |-> SelectSeq([a \in 1..Len(m.xyz) |-> a],
                                               LAMBDA a : a \notin Values(delete_at)),
                           indices |-> indices,
                           core_topology |-> [topology |-> m.topology[core_idx.items[1]],
                                              index |-> core_idx.items[1]],
                           lig_residue |-> <<>>]]

\* dissociate(combinations)
dissociate_call(records) ==
    /\ dissociate' = [state |-> "created", combinations |-> records, todo |-> records,
                      indices |-> [id |-> 0, items |-> <<>>], raised |-> "None"]
    /\ molecules' = <<>>
    /\ call' = [op |-> "__call__"]
    /\ err' = "None"
    /\ UNCHANGED <<mol, self, cor_lig_pairs, combinations, yielded, run>>

\* next() of the generator.
next_molecule ==
    /\ dissociate.state \in {"created", "suspended"}
    /\ LET first == dissociate.state = "created"
           got == IF first THEN get_new_indices(self, mol)
                  ELSE [err |-> "None", ret |-> dissociate.indices, indices |-> mol.indices]
           close(e) == [dissociate EXCEPT !.state = "closed", !.raised = e,
                            !.indices = IF got.err = "None" THEN got.ret ELSE @]
       IN  /\ call' = [op |-> "next_molecule"]
           /\ mol' = [mol EXCEPT !.indices = got.indices]
           /\ IF got.err /= "None"
              THEN /\ err' = got.err
                   /\ dissociate' = close(got.err)
                   /\ UNCHANGED molecules
              ELSE IF dissociate.todo = <<>>
              THEN /\ err' = "StopIteration"
                   /\ dissociate' = close("StopIteration")
                   /\ UNCHANGED molecules
              ELSE LET out == loop_body(mol, got.ret, Head(dissociate.todo))
                   IN  /\ err' = out.err
                       /\ IF out.err /= "None"
                          THEN /\ dissociate' = close(out.err)
                               /\ UNCHANGED molecules
                          ELSE /\ dissociate' = [dissociate EXCEPT
                                      !.state = "suspended", !.todo = Tail(@),
                                      !.indices = got.ret]
                               /\ molecules' = Append(molecules, out.mol_new)
    /\ UNCHANGED <<self, cor_lig_pairs, combinations, yielded, run>>

\* The caller appends x to the properties.indices list of the j-th structure
\* it pulled: every holder of that list object sees the new item.
append_index(j, x) ==
    LET target == molecules[j].indices
        appended(l) == IF l.id = target.id THEN [l EXCEPT !.items = Append(@, x)] ELSE l
    IN  /\ call' = [op |-> "indices.append", variant |-> j]
        /\ err' = "None"
        /\ mol' = [mol EXCEPT !.indices = appended(@)]
        /\ dissociate' = [dissociate EXCEPT !.indices = appended(@)]
        /\ molecules' = [k \in 1..Len(molecules) |->
                            [molecules[k] EXCEPT !.indices = appended(@)]]
        /\ UNCHANGED <<self, cor_lig_pairs, combinations, yielded, run>>

(***************************************************************************)
(* start_dissociate from the construction of the engine (l.129) to the     *)
(* return (l.146).  run holds the arguments, the next statement (pc) and   *)
(* the engine steps made so far (steps).  An exception of a step ends the  *)
(* run.                                                                    *)
(***************************************************************************)
\* A variant that classifies the topology before it filters the bulk.
after_swapped(pc, core_atom) ==
    CASE pc = "__init__" -> "assign_topology"
      [] pc = "assign_topology" -> IF core_atom THEN "remove_bulk" ELSE "pairing"
      [] pc = "remove_bulk" -> "pairing"
      [] pc = "pairing" -> "shift"
      [] pc = "shift" -> "get_combinations"
      [] pc = "get_combinations" -> "__call__"
      [] pc = "__call__" -> "return"

\* The statement that follows a step that returned.
after(pc, core_atom) ==
    CASE pc = "__init__" -> IF core_atom THEN "remove_bulk" ELSE "assign_topology"
      [] pc = "remove_bulk" -> "assign_topology"
      [] pc = "assign_topology" -> "pairing"
      [] pc = "pairing" -> "shift"
      [] pc = "shift" -> "get_combinations"
      [] pc = "get_combinations" -> "__call__"
      [] pc = "__call__" -> "return"

\* The run after the step at pc, which left `raised` in err.
advance(raised) ==
    [run EXCEPT !.pc = IF raised = "None" THEN after(run.pc, run.core_atom) ELSE "raised",
                !.steps = IF run.pc = "shift" THEN @ ELSE Append(@, run.pc)]

\* get_pairs_distance(lig_idx, max_dist=None): fill_diagonal stores None as
\* nan, and `dist < None` is no comparison NumPy has: TypeError.
get_pairs_distance_None(lig_idx) ==
    /\ call' = [op |-> "get_pairs_distance", lig_idx |-> lig_idx, max_dist |-> "None"]
    /\ err' = "TypeError"
    /\ UNCHANGED <<mol, self, cor_lig_pairs, combinations, yielded>>

\* The records the generator of get_combinations is about to yield, as
\* __call__ will read them: an integer core part, chain objects as ligand
\* entries.
RECURSIVE upcoming(_, _, _)
upcoming(partition_dict, core_iterator, ligand_list) ==
    IF core_iterator = <<>> \/ ligand_list = <<>> THEN <<>>
    ELSE LET value == get_value(partition_dict, Head(core_iterator), Head(ligand_list))
         IN  IF value.err /= "None" THEN <<>>
             ELSE << [core |-> [kind |-> "int", items |-> <<value.core>>],
                      ligands |-> [b \in 1..Len(value.ligands) |->
                                      [kind |-> "chain",
                                       items |-> value.ligands[b].iterables]]] >>
                  \o upcoming(partition_dict, Tail(core_iterator), Tail(ligand_list))

\* if core_atom: dissociate.remove_bulk()
step_remove_bulk ==
    /\ run.pc = "remove_bulk"
    /\ remove_bulk(1)
    /\ run' = advance(err')
    /\ UNCHANGED <<dissociate, molecules>>

\* dissociate.assign_topology()
step_assign_topology ==
    /\ run.pc = "assign_topology"
    /\ assign_topology
    /\ run' = advance(err')
    /\ UNCHANGED <<dissociate, molecules>>

\* l.135-139: the choice of the pairing method.
step_pairing ==
    /\ run.pc = "pairing"
    /\ LET lig_idx == [kind |-> "iterator", items |-> run.anchors]
       IN  IF ~run.max_lig_dist.none
           THEN get_pairs_closest(lig_idx, run.lig_pairs)
           ELSE get_pairs_distance_None(lig_idx)
    /\ run' = advance(err')
    /\ UNCHANGED <<dissociate, molecules>>

\* cor_lig_pairs[:, 1:] += 1
step_shift ==
    /\ run.pc = "shift"
    /\ shift_ligands
    /\ run' = advance(err')
    /\ UNCHANGED <<dissociate, molecules>>

\* dissociate.get_combinations(cor_lig_pairs, core_smiles=None)
step_get_combinations ==
    /\ run.pc = "get_combinations"
    /\ get_combinations
    /\ run' = advance(err')
    /\ UNCHANGED <<dissociate, molecules>>

\* return dissociate(cor_lig_combinations)
step_call ==
    /\ run.pc = "__call__"
    /\ dissociate' = [state |-> "created",
                      combinations |-> upcoming(self.partition_dict,
                                                combinations.core_iterator,
                                                combinations.ligand_list),
                      todo |-> upcoming(self.partition_dict,
                                        combinations.core_iterator,
                                        combinations.ligand_list),
                      indices |-> [id |-> 0, items |-> <<>>], raised |-> "None"]
    /\ molecules' = <<>>
    /\ call' = [op |-> "__call__"]
    /\ err' = "None"
    /\ run' = advance("None")
    /\ UNCHANGED <<mol, self, cor_lig_pairs, combinations, yielded>>

\* self.partition_mol(key), called on a constructed engine.
partition_mol_call(key) ==
    /\ call' = [op |-> "partition_mol", key |-> key, ret |-> partition_mol_key(mol, key)]
    /\ err' = "None"
    /\ UNCHANGED <<mol, self, cor_lig_pairs, combinations, yielded>>

(***************************************************************************)
(* The calls a user of the engine makes, with their arguments.             *)
(***************************************************************************)
\* Ligand anchors: one integer, or the anchor atoms in index order.
LigandValues == { [kind |-> "int", items |-> <<a>>] : a \in Atoms } \cup AscendingLists

CoreIdx ==
    /\ \E value \in IndexValues(MaxIdxLen) : SetCoreIdx(value)
    /\ UNCHANGED gen_vars

RemoveBulk ==
    /\ \E max_vec_len \in 0..2 : remove_bulk(max_vec_len)
    /\ UNCHANGED gen_vars

AssignTopology == assign_topology /\ UNCHANGED gen_vars

PairsClosest ==
    /\ \E lig_idx \in LigandValues, n_pairs \in 0..MaxPairs :
          get_pairs_closest(lig_idx, n_pairs)
    /\ UNCHANGED gen_vars

PairsDistance ==
    /\ \E lig_idx \in LigandValues, max_dist \in Radii :
          get_pairs_distance(lig_idx, max_dist)
    /\ UNCHANGED gen_vars

ShiftLigands == shift_ligands /\ UNCHANGED gen_vars

GetCombinations == get_combinations /\ UNCHANGED gen_vars

NextCombination == next_combination /\ UNCHANGED gen_vars

\* Core index coercion.
InitIdx ==
    \E gaps \in AllGaps :
        init(Molecule(gaps, UnitSteps), [kind |-> "list", items |-> <<>>],
             1, 1, [none |-> TRUE, map |-> <<>>])

SpecIdx == InitIdx /\ [][CoreIdx]_vars

\* Bulk filter and topology classifier.
InitTopo ==
    \E gaps \in AllGaps, core \in IndexValues(MaxIdxLen) \cup AscendingLists,
       max_dist \in Radii, topology \in TopologyArgs :
        init(Molecule(gaps, UnitSteps), core, 1, max_dist, topology)

NextTopo == RemoveBulk \/ AssignTopology

SpecTopo == InitTopo /\ [][NextTopo]_vars

\* Residue patterns with at most one residue of two atoms.
SomeSteps == { steps \in AllSteps : SumSeq(steps) >= NAtoms - 2 }

\* Expansion of the pairs into combinations, as start_dissociate chains it.
InitComb ==
    \E gaps \in AllGaps, steps \in SomeSteps, ligand_count \in 1..MaxLigandCount,
       core \in { v \in AscendingLists : Len(v.items) <= MaxIdxLen } :
        init(Molecule(gaps, steps), core, ligand_count, 1, [none |-> TRUE, map |-> <<>>])

NextComb ==
    \/ /\ cor_lig_pairs.dtype = "None" /\ err = "None"
       /\ (PairsClosest \/ PairsDistance)
    \/ /\ call.op \in {"get_pairs_closest", "get_pairs_distance"} /\ err = "None"
       /\ ShiftLigands
    \/ /\ combinations.state = "None" /\ err = "None"
       /\ GetCombinations
    \/ NextCombination

SpecComb == InitComb /\ [][NextComb]_vars

\* The match arrays of a substructure: rows of distinct 0-based atom indices
\* of one width.
MatchArrays ==
    UNION { SeqsUpTo({ row \in [1..w -> 0..(NAtoms - 1)] :
                         \A a, b \in 1..w : a /= b => row[a] /= row[b] }, MaxMatches) :
            w \in 1..MaxMatchWidth }

CoreNeighbours ==
    /\ \E matches \in MatchArrays : core_neighbours_call(matches)
    /\ UNCHANGED gen_vars

\* Core expansion over a substructure.
InitSub ==
    \E core \in AscendingLists :
        init(Molecule(Lattice(1, 1), UnitSteps), core, 1, 1, [none |-> TRUE, map |-> <<>>])

\* The method changes nothing of the engine: one call per engine shows all.
NextSub == call.op = "__init__" /\ CoreNeighbours

SpecSub == InitSub /\ [][NextSub]_vars

\* The records a caller hands to __call__.
CoreParts ==
    { [kind |-> "int", items |-> <<1>>] }
    \cup { [kind |-> "list", items |-> v.items] :
             v \in { v \in AscendingLists : Len(v.items) <= MaxIdxLen } }

LigandParts ==
    { <<>> } \cup { << [kind |-> k, items |-> <<NAtoms>>] >> : k \in {"int", "list", "chain"} }

Records == [core : CoreParts, ligands : LigandParts]

\* mol.properties.indices of the source: unset, or a list.
IndicesValues ==
    { [id |-> 0, items |-> <<>>] }
    \cup { [id |-> 1, items |-> v.items] :
             v \in { v \in AscendingLists : Len(v.items) <= MaxIdxLen } }

Dissociate ==
    /\ dissociate.state = "None"
    /\ \E records \in SeqsUpTo(Records, MaxRecords) : dissociate_call(records)

NextMolecule == next_molecule

AppendIndex ==
    \E j \in 1..Len(molecules) :
        /\ Len(molecules[j].indices.items) < MaxIdxLen
        /\ append_index(j, 0)

\* Dissociation generator.
InitGen ==
    \E indices \in IndicesValues, ligand_count \in 1..MaxLigandCount :
        init([Molecule(Lattice(1, 1), UnitSteps) EXCEPT !.indices = indices],
             [kind |-> "list", items |-> <<1>>], ligand_count, 1,
             [none |-> TRUE, map |-> <<>>])

NextGen == Dissociate \/ NextMolecule \/ AppendIndex

SpecGen == InitGen /\ [][NextGen]_vars

\* The anchors of a structure with the core atoms `core`: its other atoms,
\* all of them or all but one.
AnchorLists(core) ==
    LET others == Atoms \ Values(core)
    IN  { SetSorted(S) : S \in {others} \cup { others \ {a} : a \in others } }

\* max_lig_dist: None, or a distance.
Thresholds == { [none |-> TRUE, value |-> 0] } \cup { [none |-> FALSE, value |-> d] : d \in Radii }

\* The state of a start_dissociate call after l.129 has built the engine.
InitStart ==
    \E core \in { v \in AscendingLists : Len(v.items) \in 1..MaxIdxLen },
       core_atom \in BOOLEAN, lig_count \in 1..MaxLigandCount, lig_pairs \in 1..MaxPairs,
       max_lig_dist \in Thresholds, topology \in TopologyArgs :
        \E anchors \in AnchorLists(core.items) :
            LET m == Molecule(Lattice(1, 1), UnitSteps)
            IN  /\ mol = m
                /\ self = MolDissociater(m, [kind |-> "list", items |-> core.items],
                                         lig_count, 1, topology)
                /\ cor_lig_pairs = [dtype |-> "None", rows |-> <<>>]
                /\ combinations = [state |-> "None"]
                /\ yielded = <<>>
                /\ call = [op |-> "__init__"]
                /\ err = "None"
                /\ run = [pc |-> after("__init__", core_atom), steps |-> <<"__init__">>,
                          core_atom |-> core_atom, anchors |-> anchors,
                          lig_pairs |-> lig_pairs, max_lig_dist |-> max_lig_dist]
                /\ dissociate = [state |-> "None"]
                /\ molecules = <<>>

NextStart ==
    \/ step_remove_bulk
    \/ step_assign_topology
    \/ step_pairing
    \/ step_shift
    \/ step_get_combinations
    \/ step_call

SpecStart == InitStart /\ [][NextStart]_vars

\* The key argument of partition_mol: None, or a callable, given by its
\* value on every atom.
KeyArgs ==
    { [none |-> TRUE, values |-> <<>>] }
    \cup { [none |-> FALSE, values |-> v] : v \in [1..NAtoms -> 0..MaxKey] }

PartitionMol ==
    /\ \E key \in KeyArgs : partition_mol_call(key)
    /\ UNCHANGED gen_vars

\* Partitioner.
InitPart ==
    \E steps \in AllSteps :
        init(Molecule(Lattice(1, 1), steps), [kind |-> "list", items |-> <<1>>], 1, 1,
             [none |-> TRUE, map |-> <<>>])

\* The method changes nothing of the engine: one call per engine shows all.
NextPart == call.op = "__init__" /\ PartitionMol

SpecPart == InitPart /\ [][NextPart]_vars

\* Pairing engine.
InitPairs ==
    \E gaps \in AllGaps, core \in AscendingLists, ligand_count \in 1..MaxLigandCount :
        init(Molecule(gaps, UnitSteps), core, ligand_count, 1, [none |-> TRUE, map |-> <<>>])

\* One pairing call on a fresh engine: the methods read the engine and their
\* arguments only.
NextPairs == cor_lig_pairs.dtype = "None" /\ err = "None" /\ (PairsDistance \/ PairsClosest)

SpecPairs == InitPairs /\ [][NextPairs]_vars

(***************************************************************************)
(* Properties.                                                             *)
(***************************************************************************)
\* The last call was method op and returned.
Returned(op) == call.op = op /\ err = "None"

\* The distance of the core atom with 0-based index c to the anchor at the
\* 0-based position q of the last call's lig_idx.
AnchorDistance(c, q) == Abs(mol.xyz[c + 1] - mol.xyz[call.lig_idx.items[q + 1]])

AnchorPositions == 0..(Len(call.lig_idx.items) - 1)

\* The last call was a pairing call with a list of at least `least` anchors.
PairingCall(op, least) ==
    /\ call.op = op
    /\ call.lig_idx.kind /= "int"
    /\ Len(call.lig_idx.items) >= least

NearestOrders(c) ==
    sorted_orders([q \in 1..Len(call.lig_idx.items) |-> AnchorDistance(c, q - 1)],
                  AnchorPositions)

\* The blocks of records the claim allows for core atom c and the candidate
\* pool `pool`: n_pairs size-n subsets of the pool of smallest norm, in
\* ascending order of norm.
BestSubsets(c, pool, n_pairs, n) ==
    LET subsets == Combinations(pool, n)
        norms == [t \in 1..Len(subsets) |->
                     SumSeq([b \in 1..n |-> AnchorDistance(c, subsets[t][b])
                                            * AnchorDistance(c, subsets[t][b])])]
    IN  { [a \in 1..n_pairs |-> <<c>> \o subsets[order[a] + 1]] :
            order \in sorted_orders(norms, 0..(Len(subsets) - 1)) }

\* C2: get_pairs_closest with n_pairs > 1 takes per core atom the
\* n_pairs + ligand_count nearest anchors as pool and returns, per core atom and
\* in core_idx order, the n_pairs size-ligand_count subsets of the pool of
\* smallest norm, in ascending order of norm.  Stated for an engine with at
\* least one core atom and with equal norms in any order (the claim asks for
\* enumeration order, which is more).
C2_ClosestMulti ==
    LET n == self.ligand_count
        n_pairs == call.n_pairs
    IN  (PairingCall("get_pairs_closest", n_pairs + n) /\ n_pairs > 1
            /\ Len(self.core_idx) >= 1) =>
            /\ err = "None"
            /\ cor_lig_pairs.dtype = "int"
            /\ Len(cor_lig_pairs.rows) = n_pairs * Len(self.core_idx)
            /\ \A k \in 1..Len(self.core_idx) :
                  \E order \in NearestOrders(self.core_idx[k]) :
                      SubSeq(cor_lig_pairs.rows, (k - 1) * n_pairs + 1, k * n_pairs)
                          \in BestSubsets(self.core_idx[k], Take(order, n_pairs + n), n_pairs, n)

\* C3's qualifying anchors of core atom c: nearer than the threshold, and not
\* the core atom itself.
Qualifying(c) ==
    SelectSeq([q \in 1..Len(call.lig_idx.items) |-> q - 1],
              LAMBDA q : /\ AnchorDistance(c, q) < call.max_dist
                         /\ call.lig_idx.items[q + 1] /= c + 1)

\* The ligand columns of the records of the k-th core atom, as positions in
\* lig_idx.
RECURSIVE LigandColumns(_, _, _)
LigandColumns(pairs, k, r) ==
    IF r > Len(pairs.rows) THEN <<>>
    ELSE LET row == pairs.rows[r]
             mine == IF pairs.dtype = "object" THEN row[1] = <<k - 1>>
                     ELSE row[1] = self.core_idx[k]
             ligands == [b \in 1..(Len(row) - 1) |->
                            IF pairs.dtype = "object" THEN row[b + 1][2] ELSE row[b + 1]]
         IN  (IF mine THEN <<ligands>> ELSE <<>>) \o LigandColumns(pairs, k, r + 1)

\* C3: a get_pairs_distance call that returns holds, per core atom, one record
\* for every size-ligand_count combination of the atom's qualifying anchors, in
\* the order of the qualifying list, and none for an atom with fewer.
C3_DistanceCombinations ==
    (PairingCall("get_pairs_distance", 0) /\ err = "None") =>
        \A k \in 1..Len(self.core_idx) :
            LigandColumns(cor_lig_pairs, k, 1)
                = Combinations(Qualifying(self.core_idx[k]), self.ligand_count)

\* C4: every record that get_pairs_closest or get_pairs_distance returns is a
\* flat row: a core_idx member, then ligand entries that name supplied anchors
\* 1-based (as atom indices, or as positions in lig_idx counted from 1).
C4_FlatRecords ==
    ((PairingCall("get_pairs_closest", 0) \/ PairingCall("get_pairs_distance", 0))
        /\ err = "None") =>
        /\ cor_lig_pairs.dtype /= "object"
        /\ \A r \in 1..Len(cor_lig_pairs.rows) :
              LET row == cor_lig_pairs.rows[r]
                  items == call.lig_idx.items
              IN  /\ \E k \in 1..Len(self.core_idx) : row[1] = self.core_idx[k]
                  /\ \/ \A b \in 2..Len(row) : row[b] \in 1..Len(items)
                     \/ \A b \in 2..Len(row) : \E q \in 1..Len(items) : row[b] = items[q]

\* C5: assigning core_idx accepts one integer, a list or an iterator of
\* 1-based atom indices and stores the inputs, each less one, as a sorted,
\* duplicate-free array of indices in [0, atom_count).
C5_CoerceIndices ==
    call.op = "core_idx" =>
        /\ err = "None"
        /\ \A k \in 1..(Len(self.core_idx) - 1) : self.core_idx[k] < self.core_idx[k + 1]
        /\ \A k \in 1..Len(self.core_idx) : self.core_idx[k] \in 0..(NAtoms - 1)
        /\ { self.core_idx[k] : k \in 1..Len(self.core_idx) }
              = { call.value.items[k] - 1 : k \in 1..Len(call.value.items) }

\* The positions of core_idx whose atoms lie within max_dist of the atom at
\* position k, that position excluded.
NeighbourPositions(k) ==
    SelectSeq([k2 \in 1..Len(self.core_idx) |-> k2],
              LAMBDA k2 : /\ k2 /= k
                          /\ Abs(mol.xyz[self.core_idx[k] + 1] - mol.xyz[self.core_idx[k2] + 1])
                                <= self.max_dist)

Isolated(k) == NeighbourPositions(k) = <<>>

\* The vector from the atom at position k to the mean position of its
\* neighbours is longer than max_vec_len (in half length units); an atom
\* without neighbours is a surface atom.
Surface(k, max_vec_len) ==
    LET near == NeighbourPositions(k)
        total == SumSeq([a \in 1..Len(near) |-> mol.xyz[self.core_idx[near[a]] + 1]])
    IN  \/ Isolated(k)
        \/ 2 * Abs(Len(near) * mol.xyz[self.core_idx[k] + 1] - total) > Len(near) * max_vec_len

SurfaceAtoms(max_vec_len) ==
    LET keep == SelectSeq([k \in 1..Len(self.core_idx) |-> k],
                          LAMBDA k : Surface(k, max_vec_len))
    IN  [a \in 1..Len(keep) |-> self.core_idx[keep[a]]]

\* C6: remove_bulk leaves in core_idx exactly the atoms whose vector to the
\* mean position of their neighbouring core atoms is longer than max_vec_len,
\* in their order and with their values.
C6_RemoveBulk ==
    [][call'.op = "remove_bulk" =>
          /\ err' = "None"
          /\ self'.core_idx = SurfaceAtoms(call'.max_vec_len)]_vars

\* C7: remove_bulk does not fail on, and keeps, a core atom that has no other
\* core atom within max_dist.
C7_IsolatedKept ==
    [][(call'.op = "remove_bulk" /\ \E k \in 1..Len(self.core_idx) : Isolated(k)) =>
          /\ err' = "None"
          /\ \A k \in 1..Len(self.core_idx) :
                Isolated(k) =>
                    \E k2 \in 1..Len(self'.core_idx) : self'.core_idx[k2] = self.core_idx[k]]_vars

\* The core atoms other than atom a (0-based) within max_dist of it.
OtherCoreAtoms(a) ==
    { self.core_idx[k] : k \in 1..Len(self.core_idx) } \cap
    { b \in 0..(NAtoms - 1) : b /= a /\ Abs(mol.xyz[a + 1] - mol.xyz[b + 1]) <= self.max_dist }

\* The generic label of a neighbour count.
GenericLabel(c) ==
    CASE c = 0 -> "0_neighbours"
      [] c = 1 -> "1_neighbours"
      [] c = 2 -> "2_neighbours"
      [] c = 3 -> "3_neighbours"
      [] c = 4 -> "4_neighbours"
      [] c = 5 -> "5_neighbours"
      [] OTHER -> "many_neighbours"

\* C8: after assign_topology every core atom carries the label of its number
\* c of other core atoms within max_dist: topology[c] when the mapping has c,
\* "<c>_neighbours" otherwise.
C8_TopologyLabels ==
    Returned("assign_topology") =>
        \A k \in 1..Len(self.core_idx) :
            LET c == Cardinality(OtherCoreAtoms(self.core_idx[k]))
            IN  mol.topology[1 + self.core_idx[k]]
                    = IF c \in DOMAIN self.topology THEN self.topology[c] ELSE GenericLabel(c)

\* C9: a generator of get_combinations that ran to its end yielded one record
\* per row of the pair array, in row order, the k-th holding the (1-based)
\* core index of the k-th row.
C9_OnePerPair ==
    (combinations.state = "closed" /\ err = "StopIteration") =>
        /\ Len(yielded) = Len(combinations.cor_lig_pairs)
        /\ \A k \in 1..Len(yielded) :
              yielded[k].core = 1 + combinations.cor_lig_pairs[k][1]

\* C10: in every yielded record the removal group of each ligand slot is the
\* partition_dict index list of that slot's ligand in the matching pair row.
C10_LigandGroups ==
    \A k \in 1..Len(yielded) :
        \A b \in 1..Len(yielded[k].ligands) :
            LET group == chain_items(yielded[k].ligands[b])
            IN  /\ group.err = "None"
                /\ group.items = self.partition_dict[1 + combinations.cor_lig_pairs[k][1 + b]]

\* The core indices that no row of the last call's matches holds.
Unmatched ==
    SetSorted(Values(self.core_idx)
                \ UNION { Values(call.matches[r]) : r \in 1..Len(call.matches) })

\* C11: _core_neighbours with a substructure raises the error that lists the
\* absent atoms, with exactly the sorted unmatched core indices, when some
\* core index is in no match, and raises nothing when every core index is in
\* a match.  Stated for an engine with a core atom and a substructure that
\* the structure holds at least once.
C11_SubstructureMismatch ==
    (call.op = "_core_neighbours" /\ Len(self.core_idx) >= 1 /\ call.matches /= <<>>) =>
        IF Unmatched /= <<>>
        THEN err = "ValueError" /\ call.what = "absent atoms" /\ call.absent = Unmatched
        ELSE err = "None"

\* The atoms a record names: its core group and its ligand groups.
RecordAtoms(record) ==
    Values(record.core.items)
        \cup UNION { Values(record.ligands[b].items) : b \in 1..Len(record.ligands) }

\* C12: a generator of __call__ that is closed ran to the end of its k
\* records and yielded k structures, the j-th holding the atoms of the source
\* but those the j-th record names, in the source's order.  Stated for
\* records whose core part is a non-empty list and for a source structure
\* without a bookkeeping list of its own.
C12_OnePerRecord ==
    (/\ dissociate.state = "closed"
     /\ mol.indices.id /= 1
     /\ \A j \in 1..Len(dissociate.combinations) :
           /\ dissociate.combinations[j].core.kind = "list"
           /\ dissociate.combinations[j].core.items /= <<>>) =>
        /\ dissociate.raised = "StopIteration"
        /\ Len(molecules) = Len(dissociate.combinations)
        /\ \A j \in 1..Len(molecules) :
              molecules[j].atoms
                  = SetSorted(Atoms \ RecordAtoms(dissociate.combinations[j]))

\* C13: a change of the bookkeeping list of one pulled structure shows
\* neither in the source structure nor in another pulled structure, and the
\* source keeps its atoms.
C13_IndependentVariants ==
    [][call'.op = "indices.append" =>
          /\ mol'.indices.items = mol.indices.items
          /\ mol'.xyz = mol.xyz
          /\ \A k \in 1..Len(molecules) :
                k /= call'.variant =>
                    molecules'[k].indices.items = molecules[k].indices.items]_vars

\* s without its k-th entry.
Without(seq, k) == SubSeq(seq, 1, k - 1) \o SubSeq(seq, k + 1, Len(seq))

\* C16: the first next() of a generator over no record runs _get_new_indices
\* and ends the iteration; the list it computed is empty when the source has
\* no list or an empty one, and otherwise is the source's list without its
\* last ligand_count entries and without one more entry (the core's), the
\* source's list staying as it was.  Stated for a source list longer than
\* ligand_count.
C16_NewIndices ==
    [][(/\ dissociate.state = "created" /\ dissociate.combinations = <<>>
        /\ call'.op = "next_molecule"
        /\ (mol.indices.items = <<>> \/ Len(mol.indices.items) > self.ligand_count)) =>
          /\ err' = "StopIteration"
          /\ IF mol.indices.items = <<>>
             THEN dissociate'.indices.items = <<>>
             ELSE /\ mol'.indices = mol.indices
                  /\ dissociate'.indices.id /= mol.indices.id
                  /\ LET kept == Take(mol.indices.items,
                                      Len(mol.indices.items) - self.ligand_count)
                     IN  \E k \in 1..Len(kept) :
                            dissociate'.indices.items = Without(kept, k)]_vars

\* C14: start_dissociate pairs with get_pairs_distance and max_lig_dist as
\* cutoff when max_lig_dist is given, and with get_pairs_closest and
\* n_pairs = lig_pairs when it is None.
C14_StrategySelection ==
    (run.pc /= "None" /\ call.op \in {"get_pairs_closest", "get_pairs_distance"}) =>
        IF run.max_lig_dist.none
        THEN call.op = "get_pairs_closest" /\ call.n_pairs = run.lig_pairs
        ELSE call.op = "get_pairs_distance" /\ call.max_dist = run.max_lig_dist.value

\* The order of the engine steps of start_dissociate.
StepOrder ==
    <<"__init__", "remove_bulk", "assign_topology", "pairing", "get_combinations", "__call__">>

Position(step) == CHOOSE k \in 1..Len(StepOrder) : StepOrder[k] = step

KeyOf(a) == IF call.key.none THEN mol.ResidueNumber[a] ELSE call.key.values[a]

\* C17: the mapping partition_mol returns has one list per key value that
\* occurs, none empty, each strictly ascending, and every atom index of
\* 1..atom_count is in the list of its own key and in no other.
C17_Partition ==
    call.op = "partition_mol" =>
        /\ err = "None"
        /\ DOMAIN call.ret = { KeyOf(a) : a \in Atoms }
        /\ \A k \in DOMAIN call.ret :
              /\ call.ret[k] /= <<>>
              /\ \A b \in 1..(Len(call.ret[k]) - 1) : call.ret[k][b] < call.ret[k][b + 1]
              /\ Values(call.ret[k]) = { a \in Atoms : KeyOf(a) = k }

\* C17's case: a caller's key that puts atoms 1 and 3 in one group and atom 2
\* in another.
C17_Witness ==
    /\ call.op = "partition_mol" /\ ~call.key.none
    /\ KeyOf(1) = KeyOf(3) /\ KeyOf(1) /= KeyOf(2)
    /\ Cardinality(DOMAIN call.ret) = MaxKey + 1
    /\ Len(call.ret[KeyOf(1)]) >= 2

====
